---- MODULE Spec2Model ----
(***************************************************************************)
(* Model of smb_processor_and_poster.py: the incremental synchronisation   *)
(* of multi-file records from an SMB share to an HTTP endpoint.            *)
(*                                                                         *)
(* File names are sequences of one-character strings, timestamps are       *)
(* integers (instants), an absent value (Python None) is the integer None. *)
(***************************************************************************)
EXTENDS Integers, Sequences, FiniteSets, TLC

(***************************************************************************)
(* Bounds of the model.                                                    *)
(***************************************************************************)
MaxEntries == 3      \* entries in the listed folder
MaxTime == 2         \* last_write_time values are 1..MaxTime
MaxFaults == 2       \* injected failures (I/O, POST, save, cleanup) per run
MaxNameLen == 4      \* length of the file names given to extract_common_name

None == -1           \* Python None for timestamps, sizes and paths

(***************************************************************************)
(* Characters and strings.                                                 *)
(***************************************************************************)
\* ord(c) for the characters that occur in the modelled file names
Ord(c) ==
  CASE c = "." -> 46
    [] c = "1" -> 49 [] c = "2" -> 50 [] c = "3" -> 51 [] c = "4" -> 52
    [] c = "5" -> 53 [] c = "6" -> 54 [] c = "7" -> 55 [] c = "8" -> 56
    [] c = "A" -> 65 [] c = "B" -> 66 [] c = "D" -> 68 [] c = "F" -> 70
    [] c = "P" -> 80 [] c = "_" -> 95
    [] c = "a" -> 97 [] c = "b" -> 98 [] c = "d" -> 100 [] c = "f" -> 102
    [] c = "j" -> 106 [] c = "n" -> 110 [] c = "o" -> 111 [] c = "p" -> 112
    [] c = "r" -> 114 [] c = "s" -> 115 [] c = "t" -> 116 [] c = "x" -> 120
    [] OTHER -> 0

\* str.lower() on one character
LowerChar(c) ==
  CASE c = "A" -> "a" [] c = "B" -> "b" [] c = "D" -> "d"
    [] c = "F" -> "f" [] c = "P" -> "p" [] OTHER -> c

\* str.lower()
Lower(s) == [i \in 1..Len(s) |-> LowerChar(s[i])]

\* str.find(c): the first index of c in s, 0 when c does not occur
Find(s, c) ==
  IF \E i \in 1..Len(s) : s[i] = c
    THEN CHOOSE i \in 1..Len(s) : s[i] = c /\ \A j \in 1..(i - 1) : s[j] # c
    ELSE 0

\* str.rfind(c): the last index of c in s, 0 when c does not occur
RFind(s, c) ==
  IF \E i \in 1..Len(s) : s[i] = c
    THEN CHOOSE i \in 1..Len(s) : s[i] = c /\ \A j \in (i + 1)..Len(s) : s[j] # c
    ELSE 0

\* s < t in Python's string order (lexicographic on code points)
StrLess(s, t) ==
  \E k \in 0..Len(s) :
    /\ k <= Len(t)
    /\ \A i \in 1..k : s[i] = t[i]
    /\ \/ k = Len(s) /\ k < Len(t)
       \/ k < Len(s) /\ k < Len(t) /\ Ord(s[k + 1]) < Ord(t[k + 1])

(***************************************************************************)
(* extract_common_name: the identifier of a file name.  The result is a    *)
(* record: isNone tells whether the function returned None, val is the     *)
(* returned string otherwise.                                              *)
(***************************************************************************)
NoneStr == [isNone |-> TRUE, val |-> <<>>]
Str(s) == [isNone |-> FALSE, val |-> s]

\* filename.split("_", 1)[1]: the text after the first "_"
AfterFirst(s, c) == SubSeq(s, Find(s, c) + 1, Len(s))
\* name_with_ext.split(".", 1)[0]: the text before the first "."
BeforeFirst(s, c) == SubSeq(s, 1, Find(s, c) - 1)

\* mutant of extract_common_name: a remainder without "." is returned whole
extract_common_name_nodot(filename) ==
  IF Find(filename, "_") # 0
    THEN LET name_with_ext == AfterFirst(filename, "_")
         IN IF Find(name_with_ext, ".") # 0
              THEN Str(BeforeFirst(name_with_ext, "."))
              ELSE Str(name_with_ext)
    ELSE NoneStr

extract_common_name(filename) ==
  IF Find(filename, "_") # 0
    THEN LET name_with_ext == AfterFirst(filename, "_")
         IN IF Find(name_with_ext, ".") # 0
              THEN Str(BeforeFirst(name_with_ext, "."))
              ELSE NoneStr
    ELSE NoneStr

(***************************************************************************)
(* os.path.splitext(name)[1]: the text from the last "." on, empty when    *)
(* there is no "." or when only dots precede the last one.                 *)
(***************************************************************************)
SplitExt(p) ==
  LET dotIndex == RFind(p, ".")
  IN IF dotIndex > 0 /\ \E i \in 1..(dotIndex - 1) : p[i] # "."
       THEN SubSeq(p, dotIndex, Len(p))
       ELSE <<>>

ExtJson == <<".", "j", "s", "o", "n">>
ExtPdf == <<".", "p", "d", "f">>
ExtTxt == <<".", "t", "x", "t">>

\* EXT_ORDER.get(ext, 999)
EXT_ORDER(ext) ==
  IF ext = ExtJson THEN 0 ELSE IF ext = ExtPdf THEN 1 ELSE 999

\* mutant of sort_by_extension: the extension is compared as written
sort_by_extension_cased(item) == EXT_ORDER(SplitExt(item.name))

sort_by_extension(item) == EXT_ORDER(Lower(SplitExt(item.name)))


(***************************************************************************)
(* The remote folder.  A catalogue is a listing of a share: the names,     *)
(* kinds, creation times and content sizes of its entries, in listing      *)
(* order.  A store is a sub-listing of a catalogue; each entry's           *)
(* last_write_time is chosen freely, None meaning that getAttributes fails *)
(* for the entry.  type is the kind that listPath reports, attr_directory  *)
(* the isDirectory flag that getAttributes reports for the same path.      *)
(***************************************************************************)
File(name, content, ctime) ==
  [name |-> name, type |-> "file", attr_directory |-> FALSE,
   content |-> content, creation_time |-> ctime]

Directory(name, ctime) ==
  [name |-> name, type |-> "directory", attr_directory |-> TRUE,
   content |-> 0, creation_time |-> ctime]

\* one record of three files, its .json listed behind a .txt
CatalogueRecord ==
  << File(<<"4", "_", "A", ".", "t", "x", "t">>, 1, 1),
     File(<<"1", "_", "A", ".", "j", "s", "o", "n">>, 3, MaxTime + 1),
     File(<<"3", "_", "A", ".", "P", "D", "F">>, 4, 1) >>

\* one record with two .pdf files, the first of them empty, listed before
\* its .json
CatalogueTie ==
  << File(<<"2", "_", "A", ".", "p", "d", "f">>, 0, MaxTime + 1),
     File(<<"3", "_", "A", ".", "P", "D", "F">>, 4, 1),
     File(<<"1", "_", "A", ".", "j", "s", "o", "n">>, 3, MaxTime + 1) >>

\* a record, a file of another record, a file without identifier, a directory
CatalogueMixed ==
  << File(<<"6", "_", "B", ".", "p", "d", "f">>, 2, 1),
     File(<<"1", "_", "A", ".", "j", "s", "o", "n">>, 3, MaxTime + 1),
     File(<<"r", ".", "p", "d", "f">>, 1, 1),
     Directory(<<"7", "_", "A", ".", "j", "s", "o", "n">>, MaxTime + 1),
     File(<<"3", "_", "A", ".", "P", "D", "F">>, 4, 1) >>

Catalogues == {CatalogueRecord, CatalogueTie, CatalogueMixed}

LwChoices == {None} \cup (1..MaxTime)

\* the strictly increasing index sequences of length n into a catalogue
SubListings(cat, n) ==
  { s \in [1..n -> 1..Len(cat)] : \A i, j \in 1..n : i < j => s[i] < s[j] }

StoreEntry(c, lw) ==
  [name |-> c.name, type |-> c.type, attr_directory |-> c.attr_directory,
   content |-> c.content, last_write_time |-> lw,
   creation_time |-> IF lw = None THEN None ELSE c.creation_time]

Stores ==
  UNION { { [i \in 1..n |-> StoreEntry(cat[s[i]], lw[i])] :
              s \in SubListings(cat, n), lw \in [1..n -> LwChoices] } :
          cat \in Catalogues, n \in 0..MaxEntries }

(***************************************************************************)
(* Texts: the value of --since-time and of the watermark file's            *)
(* last_write_time.  fmt is "none" (Python None), "iso" (an ISO-8601       *)
(* timestamp, val its instant) or "bad" (a text that is no timestamp).     *)
(***************************************************************************)
NoText == [fmt |-> "none", val |-> 0]
BadText == [fmt |-> "bad", val |-> 0]

\* datetime.isoformat()
IsoFormat(t) == [fmt |-> "iso", val |-> t]

\* the watermark file: absent, not valid JSON, not readable, a JSON text that
\* is not an object, or the object {"last_write_time": text}; an object
\* without the key is JsonFile(NoText)
NoFile == [kind |-> "absent", last_write_time |-> NoText]
CorruptFile == [kind |-> "corrupt", last_write_time |-> NoText]
UnreadableFile == [kind |-> "unreadable", last_write_time |-> NoText]
ShapeFile == [kind |-> "shape", last_write_time |-> NoText]
JsonFile(text) == [kind |-> "json", last_write_time |-> text]

\* load_last_run_timestamp() catches JSONDecodeError, FileNotFoundError and
\* KeyError only: the OSError of an unreadable file and the AttributeError
\* of data.get on a JSON text that is not an object leave the function
LoadRaises(file) == file.kind \in {"unreadable", "shape"}

\* load_last_run_timestamp(): None when the file is absent or not JSON,
\* data.get("last_write_time") otherwise
load_last_run_timestamp(file) ==
  IF file.kind = "json" THEN file.last_write_time ELSE NoText

VARIABLES
  store,                 \* the remote folder
  wmFile,                \* last_run_timestamp.json
  argv,                  \* the command line of the run
  pc,                    \* position of the run
  post_url,              \* TRUE when --post-url is given
  since_time_str,        \* args.since_time
  filter_since_time,     \* the parsed filter timestamp, None when absent
  initial_file_list,     \* result of list_files
  raw_grouped_files,     \* identifier -> members, in listing order
  processed_other_items, \* included entries that are not grouped
  max_last_write_time,
  max_creation_time,
  group_keys,            \* sorted(raw_grouped_files.keys())
  g,                     \* index in group_keys of the group being processed
  group,                 \* the sorted members of the group being staged
  files,                 \* current_group_info["files"]
  processed_groups_list,
  post_payloads,
  post_log,              \* the POST requests issued, with their outcome
  save_result,           \* outcome of save_last_run_timestamp in this run
  session,               \* the SMB session: "none", "open", "closed"
  temp_download_dir,     \* "none", "created", "removed"
  exit_code,             \* None while running
  error_output,          \* the JSON error envelope printed by the except clause
  raised,                \* the exception that ended the process, "none" if none
  faults,                \* per-file failures injected in this run
  wmBefore,              \* the watermark file as the run found it
  override,              \* TRUE when --since-time was given on the command line
  prevClean,             \* TRUE when the previous run completed, used the loaded
                         \* watermark and did not fail to write it
  lost,                  \* names whose POST failed in an earlier completed run
                         \* that wrote the watermark
  dropped,               \* names of the members of the groups rejected by an
                         \* earlier completed run that did not fail to write
                         \* the watermark
  processed,             \* names of the entries included by an earlier
                         \* completed run that did not fail to write the
                         \* watermark
  split,                 \* names of the members of the groups rejected by an
                         \* earlier completed run that wrote the watermark
  missed,                \* pairs of the name of an entry that an earlier
                         \* completed run with a watermark listed without
                         \* last_write_time, and the watermark that run wrote
  peer,                  \* a second process running the script at the same
                         \* time, "idle" when there is none
  filename,              \* input of extract_common_name (names specification)
  identifier             \* its result

runVars ==
  << pc, post_url, since_time_str, filter_since_time, initial_file_list,
     raw_grouped_files, processed_other_items, max_last_write_time,
     max_creation_time, group_keys, g, group, files, processed_groups_list,
     post_payloads, post_log, save_result, session, temp_download_dir,
     exit_code, error_output, raised, faults, wmBefore, override >>

nameVars == << filename, identifier >>

\* what the model remembers of the earlier runs
histVars == << prevClean, lost, dropped, processed, split, missed >>

\* the outcome of a fatal error
errVars == << exit_code, error_output, raised >>

vars == << store, wmFile, argv, runVars, histVars, nameVars, peer >>

EmptyMap == [k \in {} |-> <<>>]

\* error_output = {"status": "error", "message": str(e)}; NoError when the
\* except clause was not entered
NoError == [status |-> "none", message |-> "none"]
ErrorOutput(e) == [status |-> "error", message |-> e]

\* the second process: its position, the filter timestamp it parsed, its
\* listing, its max_last_write_time, the names it POSTed and whether it has
\* written the watermark
PeerIdle ==
  [pc |-> "idle", filter_since_time |-> None, initial_file_list |-> <<>>,
   max_last_write_time |-> None, posted |-> {}, saved |-> FALSE]

\* the state of a process that has not started its run
RunInit ==
  /\ pc = "main"
  /\ post_url = FALSE
  /\ since_time_str = NoText
  /\ filter_since_time = None
  /\ initial_file_list = <<>>
  /\ raw_grouped_files = EmptyMap
  /\ processed_other_items = <<>>
  /\ max_last_write_time = None
  /\ max_creation_time = None
  /\ group_keys = <<>>
  /\ g = 1
  /\ group = <<>>
  /\ files = <<>>
  /\ processed_groups_list = <<>>
  /\ post_payloads = <<>>
  /\ post_log = <<>>
  /\ save_result = "none"
  /\ session = "none"
  /\ temp_download_dir = "none"
  /\ exit_code = None
  /\ error_output = NoError
  /\ raised = "none"
  /\ faults = 0
  /\ wmBefore = NoFile
  /\ override = FALSE

\* the values of --since-time on the command line; NoText: not given
Args == {NoText, BadText, IsoFormat(0)}

\* the command lines: --since-time and whether --post-url is given
CommandLines == [since_time : Args, post_url : BOOLEAN]

\* the command lines of a scheduled run: no --since-time
ScheduledCommandLines == { c \in CommandLines : c.since_time = NoText }

Init ==
  /\ store \in Stores
  /\ argv \in CommandLines
  /\ wmFile \in {NoFile} \cup { JsonFile(IsoFormat(t)) : t \in 1..MaxTime }
  /\ RunInit
  /\ prevClean = FALSE
  /\ lost = {}
  /\ dropped = {}
  /\ processed = {}
  /\ split = {}
  /\ missed = {}
  /\ peer = PeerIdle
  /\ filename = <<>>
  /\ identifier = NoneStr


(***************************************************************************)
(* SMBClient.list_files: one item per entry; an entry whose attributes     *)
(* cannot be read keeps size_bytes, last_write_time and creation_time None.*)
(* The type comes from the listing, the size from the attributes when they *)
(* do not describe a directory.                                            *)
(***************************************************************************)
ListItem(e) ==
  [name |-> e.name, type |-> e.type,
   size_bytes |-> IF e.last_write_time # None /\ ~ e.attr_directory
                    THEN e.content ELSE None,
   last_write_time |-> e.last_write_time,
   creation_time |-> e.creation_time]

list_files(st) == [i \in 1..Len(st) |-> ListItem(st[i])]

(***************************************************************************)
(* The change filter and the grouping loop of process_and_post_data.       *)
(***************************************************************************)
\* mutant of should_include: the boundary entry passes the filter
should_include_ge(item, since) ==
  ~ (since # None /\ (item.last_write_time = None \/ item.last_write_time < since))

\* mutant of should_include: the comparison is inverted
should_include_inverted(item, since) ==
  ~ (since # None /\ (item.last_write_time = None \/ item.last_write_time >= since))

should_include(item, since) ==
  ~ (since # None /\ (item.last_write_time = None \/ item.last_write_time <= since))

\* mutant of Truthy: only None is false, the empty string is true
Truthy_notnone(cn) == ~ cn.isNone

\* truth value of a str | None
Truthy(cn) == ~ cn.isNone /\ cn.val # <<>>

\* raw_grouped_files[key].append(item) on a defaultdict(list)
MapAppend(map, key, item) ==
  IF key \in DOMAIN map
    THEN [map EXCEPT ![key] = Append(@, item)]
    ELSE [k \in DOMAIN map \cup {key} |-> IF k = key THEN <<item>> ELSE map[k]]

\* mutant of NewMax: the running minimum is kept
NewMax_min(cur, t) == IF t # None /\ (cur = None \/ t < cur) THEN t ELSE cur

\* mutant of NewMax: the first timestamp met is kept
NewMax_first(cur, t) == IF cur = None THEN t ELSE cur

\* mutant of NewMax: the running maximum is replaced by every later value
NewMax_last(cur, t) == IF t # None THEN t ELSE cur

\* the update of max_last_write_time / max_creation_time by one timestamp
NewMax(cur, t) == IF t # None /\ (cur = None \/ t > cur) THEN t ELSE cur

FilterAcc0 ==
  [max_last_write_time |-> None, max_creation_time |-> None,
   raw_grouped_files |-> EmptyMap, processed_other_items |-> <<>>]

\* one iteration of "for item in initial_file_list"
FilterStep(acc, item, since) ==
  IF ~ should_include(item, since)
    THEN acc
    ELSE LET common_name == extract_common_name(item.name)
             a == [acc EXCEPT
                     !.max_last_write_time = NewMax(@, item.last_write_time),
                     !.max_creation_time = NewMax(@, item.creation_time)]
         IN IF item.type = "file" /\ Truthy(common_name)
              THEN [a EXCEPT !.raw_grouped_files =
                                MapAppend(@, common_name.val, item)]
              ELSE [a EXCEPT !.processed_other_items = Append(@, item)]

RECURSIVE FilterLoop(_, _, _, _)
FilterLoop(list, i, acc, since) ==
  IF i > Len(list)
    THEN acc
    ELSE FilterLoop(list, i + 1, FilterStep(acc, list[i], since), since)

\* sorted(keys)
\* mutant of SortedKeys: the keys in descending order
RECURSIVE SortedKeys_desc(_)
SortedKeys_desc(S) ==
  IF S = {}
    THEN <<>>
    ELSE LET m == CHOOSE k \in S : \A o \in S \ {k} : StrLess(o, k)
         IN <<m>> \o SortedKeys_desc(S \ {m})

RECURSIVE SortedKeys(_)
SortedKeys(S) ==
  IF S = {}
    THEN <<>>
    ELSE LET m == CHOOSE k \in S : \A o \in S \ {k} : StrLess(k, o)
         IN <<m>> \o SortedKeys(S \ {m})

(***************************************************************************)
(* The completeness gate and the member ordering.                          *)
(***************************************************************************)
ItemExt(item) == Lower(SplitExt(item.name))

has_json(grp) == \E i \in 1..Len(grp) : ItemExt(grp[i]) = ExtJson
has_pdf(grp) == \E i \in 1..Len(grp) : ItemExt(grp[i]) = ExtPdf

\* mutant of GateAdmits: one of the two extensions is enough
GateAdmits_any(grp) == has_json(grp) \/ has_pdf(grp)

\* the negation of "if not (has_json and has_pdf): continue"
GateAdmits(grp) == has_json(grp) /\ has_pdf(grp)

\* insertion of x behind every element whose key is not greater (stable)
InsertByKey(sorted, x) ==
  LET n == Cardinality({ i \in 1..Len(sorted) :
                           sort_by_extension(sorted[i]) <= sort_by_extension(x) })
  IN SubSeq(sorted, 1, n) \o <<x>> \o SubSeq(sorted, n + 1, Len(sorted))

\* group.sort(key=sort_by_extension): a stable sort
RECURSIVE SortGroup(_)
SortGroup(grp) ==
  IF grp = <<>>
    THEN <<>>
    ELSE InsertByKey(SortGroup(SubSeq(grp, 1, Len(grp) - 1)), grp[Len(grp)])

(***************************************************************************)
(* Staging of one member.                                                  *)
(***************************************************************************)
NoMime == "None"

\* length of base64.b64encode(content) for a content of n bytes
B64Len(n) == 4 * ((n + 2) \div 3)

\* mimetypes.guess_type(local_path)[0], with the fallback of the caller
MimeType(name) ==
  LET ext == Lower(SplitExt(name))
  IN CASE ext = ExtJson -> "application/json"
       [] ext = ExtPdf -> "application/pdf"
       [] ext = ExtTxt -> "text/plain"
       [] OTHER -> "application/octet-stream"

StageOutcomes == {"ok", "download_failed", "encode_failed"}

\* the content of the remote file called name
ContentOf(st, name) ==
  LET i == CHOOSE j \in 1..Len(st) : st[j].name = name IN st[i].content

\* new_item: the member with its staging result; blob is the length of the
\* base64 text, None when there is none
StagedItem(item, outcome, st) ==
  [name |-> item.name, type |-> item.type, size_bytes |-> item.size_bytes,
   last_write_time |-> item.last_write_time,
   creation_time |-> item.creation_time,
   local_path |-> IF outcome = "download_failed" THEN NoneStr ELSE Str(item.name),
   download_success |-> (outcome = "ok"),
   blob |-> IF outcome = "ok" THEN B64Len(ContentOf(st, item.name)) ELSE None,
   mime_type |-> IF outcome = "ok" THEN MimeType(item.name) ELSE NoMime]

(***************************************************************************)
(* The delivery payloads.                                                  *)
(***************************************************************************)
\* mutant of InPayload: every staged member gets a payload
InPayload_all(file_item) == TRUE

\* if file_item["download_success"] and file_item["blob"]
InPayload(file_item) ==
  file_item.download_success /\ file_item.blob # None /\ file_item.blob # 0

SendDataItem(common_name, file_item) ==
  [blob |-> file_item.blob, filename |-> file_item.name,
   type |-> file_item.mime_type, common_name |-> common_name,
   last_write_time |-> file_item.last_write_time,
   creation_time |-> file_item.creation_time,
   size_bytes |-> file_item.size_bytes]

GroupPayloads(group_info) ==
  LET kept == SelectSeq(group_info.files, InPayload)
  IN [i \in 1..Len(kept) |-> SendDataItem(group_info.common_name, kept[i])]

RECURSIVE BuildPayloads(_, _)
BuildPayloads(groups, i) ==
  IF i > Len(groups)
    THEN <<>>
    ELSE GroupPayloads(groups[i]) \o BuildPayloads(groups, i + 1)


(***************************************************************************)
(* The run, one action per step of __main__ and process_and_post_data.     *)
(***************************************************************************)
\* variables of the pipeline that a step before the listing leaves alone
listVars ==
  << initial_file_list, raw_grouped_files, processed_other_items,
     max_last_write_time, max_creation_time, group_keys >>

\* variables of the staging and delivery steps
stageVars == << g, group, files, processed_groups_list >>

\* "except Exception as e": the JSON error envelope is printed and
\* sys.exit(1) raises SystemExit, which the finally block lets through
Except(e) ==
  /\ error_output' = ErrorOutput(e)
  /\ raised' = "SystemExit"
  /\ exit_code' = 1
  /\ pc' = "finally"

\* __main__: the watermark is loaded, whatever the command line, and is the
\* default of --since-time; an exception of the load ends the process
Main ==
  /\ pc = "main"
  /\ wmBefore' = wmFile
  /\ IF LoadRaises(wmFile)
       THEN /\ raised' = IF wmFile.kind = "unreadable"
                           THEN "OSError" ELSE "AttributeError"
            /\ exit_code' = 1
            /\ pc' = "exited"
            /\ UNCHANGED << since_time_str, override, post_url >>
       ELSE /\ since_time_str' =
                 IF argv.since_time = NoText
                   THEN load_last_run_timestamp(wmFile)
                   ELSE argv.since_time
            /\ override' = (argv.since_time # NoText)
            /\ post_url' = argv.post_url
            /\ pc' = "since"
            /\ UNCHANGED << exit_code, raised >>
  /\ UNCHANGED << store, wmFile, argv, filter_since_time, listVars, stageVars,
                  post_payloads, post_log, save_result, session,
                  temp_download_dir, error_output, faults, histVars,
                  nameVars, peer >>

\* the parse of since_time_str, before the try statement: the ValueError
\* leaves the process at once, no except clause and no finally block runs
ParseSinceTime ==
  /\ pc = "since"
  /\ IF since_time_str.fmt = "none"
       THEN /\ filter_since_time' = None
            /\ pc' = "connect"
            /\ UNCHANGED << exit_code, raised >>
       ELSE IF since_time_str.fmt = "iso"
         THEN /\ filter_since_time' = since_time_str.val
              /\ pc' = "connect"
              /\ UNCHANGED << exit_code, raised >>
         ELSE /\ raised' = "ValueError"
              /\ exit_code' = 1
              /\ pc' = "exited"
              /\ UNCHANGED filter_since_time
  /\ UNCHANGED << store, wmFile, argv, post_url, since_time_str, listVars,
                  stageVars, post_payloads, post_log, save_result, session,
                  temp_download_dir, error_output, faults, wmBefore,
                  override, histVars, nameVars, peer >>

\* smb_client.connect(): a failure is fatal
Connect ==
  /\ pc = "connect"
  /\ \E ok \in BOOLEAN :
       IF ok
         THEN /\ session' = "open"
              /\ pc' = "list"
              /\ UNCHANGED errVars
         ELSE /\ session' = "failed"
              /\ Except("connect")
  /\ UNCHANGED << store, wmFile, argv, post_url, since_time_str, filter_since_time,
                  listVars, stageVars, post_payloads, post_log, save_result,
                  temp_download_dir, faults, wmBefore, override, histVars,
                  nameVars, peer >>

\* smb_client.list_files(folder_path): a failure of listPath is fatal
ListFiles ==
  /\ pc = "list"
  /\ \E ok \in BOOLEAN :
       IF ok
         THEN /\ initial_file_list' = list_files(store)
              /\ pc' = "filter"
              /\ UNCHANGED errVars
         ELSE /\ Except("listPath")
              /\ UNCHANGED initial_file_list
  /\ UNCHANGED << store, wmFile, argv, post_url, since_time_str, filter_since_time,
                  raw_grouped_files, processed_other_items,
                  max_last_write_time, max_creation_time, group_keys,
                  stageVars, post_payloads, post_log, save_result, session,
                  temp_download_dir, faults, wmBefore, override, histVars,
                  nameVars, peer >>

\* the filter and grouping loop, then the creation of the temporary
\* directory; a failure of tempfile.mkdtemp is fatal
FilterAndGroup ==
  /\ pc = "filter"
  /\ LET acc == FilterLoop(initial_file_list, 1, FilterAcc0, filter_since_time)
     IN /\ raw_grouped_files' = acc.raw_grouped_files
        /\ processed_other_items' = acc.processed_other_items
        /\ max_last_write_time' = acc.max_last_write_time
        /\ max_creation_time' = acc.max_creation_time
        /\ group_keys' = SortedKeys(DOMAIN acc.raw_grouped_files)
  /\ g' = 1
  /\ \E ok \in BOOLEAN :
       IF ok
         THEN /\ temp_download_dir' = "created"
              /\ pc' = "groups"
              /\ UNCHANGED errVars
         ELSE /\ Except("mkdtemp")
              /\ UNCHANGED temp_download_dir
  /\ UNCHANGED << store, wmFile, argv, post_url, since_time_str, filter_since_time,
                  initial_file_list, group, files, processed_groups_list,
                  post_payloads, post_log, save_result, session, faults,
                  wmBefore, override, histVars, nameVars, peer >>

\* one iteration of "for common_name in sorted(...)" up to the sort
GateGroup ==
  /\ pc = "groups"
  /\ g <= Len(group_keys)
  /\ LET grp == raw_grouped_files[group_keys[g]]
     IN IF GateAdmits(grp)
          THEN /\ group' = SortGroup(grp)
               /\ files' = <<>>
               /\ pc' = "stage"
               /\ UNCHANGED g
          ELSE /\ g' = g + 1
               /\ UNCHANGED << group, files, pc >>
  /\ UNCHANGED << store, wmFile, argv, post_url, since_time_str, filter_since_time,
                  listVars, processed_groups_list, post_payloads, post_log,
                  save_result, session, temp_download_dir, errVars, faults,
                  wmBefore, override, histVars, nameVars, peer >>

\* one iteration of "for item in group"; after the last member the group is
\* appended to processed_groups_list.  os.makedirs in download_file is not
\* inside its try statement: when it raises, the pipeline is aborted
StageMember ==
  /\ pc = "stage"
  /\ Len(files) < Len(group)
  /\ \/ \E outcome \in StageOutcomes :
          /\ outcome # "ok" => faults < MaxFaults
          /\ faults' = IF outcome = "ok" THEN faults ELSE faults + 1
          /\ LET new_item == StagedItem(group[Len(files) + 1], outcome, store)
                 fs == Append(files, new_item)
             IN IF Len(fs) = Len(group)
                  THEN /\ processed_groups_list' =
                            Append(processed_groups_list,
                                   [common_name |-> group_keys[g], files |-> fs])
                       /\ files' = <<>>
                       /\ group' = <<>>
                       /\ g' = g + 1
                       /\ pc' = "groups"
                  ELSE /\ files' = fs
                       /\ UNCHANGED << processed_groups_list, group, g, pc >>
          /\ UNCHANGED errVars
     \/ /\ faults < MaxFaults
        /\ faults' = faults + 1
        /\ Except("makedirs")
        /\ UNCHANGED << processed_groups_list, group, files, g >>
  /\ UNCHANGED << store, wmFile, argv, post_url, since_time_str, filter_since_time,
                  listVars, post_payloads, post_log, save_result, session,
                  temp_download_dir, wmBefore, override, histVars, nameVars, peer >>

\* mutant of AfterPayloads: the delivery loop runs without an endpoint too
AfterPayloads_always(url, payloads) ==
  IF payloads # <<>> THEN "post" ELSE "save"

\* "if post_url:": without an endpoint the delivery loop is skipped
AfterPayloads(url, payloads) ==
  IF url /\ payloads # <<>> THEN "post" ELSE "save"

\* the construction of post_payloads and the console summary
Payloads ==
  /\ pc = "groups"
  /\ g > Len(group_keys)
  /\ post_payloads' = BuildPayloads(processed_groups_list, 1)
  /\ pc' = AfterPayloads(post_url, post_payloads')
  /\ UNCHANGED << store, wmFile, argv, post_url, since_time_str, filter_since_time,
                  listVars, stageVars, post_log, save_result, session,
                  temp_download_dir, errVars, faults, wmBefore, override,
                  histVars, nameVars, peer >>

\* the final HTTP status of a response (requests follows redirections, a
\* 304 is final); 0 stands for a transport error
PostOutcomes == {0, 200, 304, 500}

\* requests.post + raise_for_status: the request counts as a success unless
\* the transport fails or the status is 4xx or 5xx
PostSucceeds(status) == status # 0 /\ ~ (400 <= status /\ status < 600)

\* mutant of PostRaises: an HTTP error status leaves the delivery loop
PostRaises_http(status) == status >= 400

\* "except requests.exceptions.RequestException" and "except Exception"
\* catch whatever the request raises: nothing leaves the loop
PostRaises(status) == FALSE

\* mutant of AfterPost: the loop is left after the first request
AfterPost_first(log, payloads) == "save"

\* mutant of AfterPost: a failed request ends the loop
AfterPost_abort(log, payloads) ==
  IF Len(log) = Len(payloads) \/ ~ log[Len(log)].success THEN "save" ELSE "post"

\* the loop goes on to the next payload whatever the outcome of the request
AfterPost(log, payloads) ==
  IF Len(log) = Len(payloads) THEN "save" ELSE "post"

\* one iteration of "for payload_item in post_payloads"
PostItem ==
  /\ pc = "post"
  /\ Len(post_log) < Len(post_payloads)
  /\ \E status \in PostOutcomes :
       /\ status # 200 => faults < MaxFaults
       /\ faults' = IF status = 200 THEN faults ELSE faults + 1
       /\ post_log' = Append(post_log,
                             [filename |-> post_payloads[Len(post_log) + 1].filename,
                              status |-> status,
                              success |-> PostSucceeds(status)])
       /\ IF PostRaises(status)
            THEN Except("post")
            ELSE /\ pc' = AfterPost(post_log', post_payloads)
                 /\ UNCHANGED errVars
  /\ UNCHANGED << store, wmFile, argv, post_url, since_time_str, filter_since_time,
                  listVars, stageVars, post_payloads, save_result, session,
                  temp_download_dir, wmBefore, override, histVars, nameVars, peer >>

\* mutant of save_last_run_timestamp: the file keeps its watermark when
\* that is the later one
save_last_run_timestamp_max(file, timestamp, outcome) ==
  CASE outcome = "ok" ->
         IF /\ file.kind = "json" /\ file.last_write_time.fmt = "iso"
            /\ file.last_write_time.val > timestamp
           THEN file ELSE JsonFile(IsoFormat(timestamp))
    [] outcome = "open_failed" -> file
    [] OTHER -> CorruptFile

SaveOutcomes == {"ok", "open_failed", "write_failed"}

\* save_last_run_timestamp(timestamp): open(.., "w") truncates the file, then
\* the JSON text is written; every failure is caught
save_last_run_timestamp(file, timestamp, outcome) ==
  CASE outcome = "ok" -> JsonFile(IsoFormat(timestamp))
    [] outcome = "open_failed" -> file
    [] OTHER -> CorruptFile

\* mutant of ShouldSave: the watermark is written in every run
ShouldSave_always(m) == TRUE

\* "if max_last_write_time:"
ShouldSave(m) == m # None

\* "if max_last_write_time: save_last_run_timestamp(max_last_write_time)"
SaveWatermark ==
  /\ pc = "save"
  /\ IF ShouldSave(max_last_write_time)
       THEN \E outcome \in SaveOutcomes :
              /\ outcome # "ok" => faults < MaxFaults
              /\ faults' = IF outcome = "ok" THEN faults ELSE faults + 1
              /\ wmFile' = save_last_run_timestamp(wmFile, max_last_write_time,
                                                   outcome)
              /\ save_result' = outcome
       ELSE UNCHANGED << wmFile, save_result, faults >>
  /\ pc' = "finally"
  /\ UNCHANGED << store, argv, post_url, since_time_str, filter_since_time,
                  listVars, stageVars, post_payloads, post_log, session,
                  temp_download_dir, errVars, wmBefore, override, histVars,
                  nameVars, peer >>

FinallyOutcomes == {"ok", "close_failed", "rmtree_failed"}

\* the finally block: smb_client.close(), then shutil.rmtree inside a try
\* statement of its own.  An exception of close() leaves the block before
\* the directory is looked at and ends the process; a failure of rmtree is
\* logged.  The process then exits, with 1 after an exception and 0 otherwise
Finally ==
  /\ pc = "finally"
  /\ \E outcome \in FinallyOutcomes :
       /\ outcome # "ok" => faults < MaxFaults
       /\ outcome = "rmtree_failed" => temp_download_dir = "created"
       /\ faults' = IF outcome = "ok" THEN faults ELSE faults + 1
       /\ IF outcome = "close_failed"
            THEN /\ session' = "close_failed"
                 /\ raised' = "CloseError"
                 /\ exit_code' = 1
                 /\ UNCHANGED temp_download_dir
            ELSE /\ session' = "closed"
                 /\ temp_download_dir' =
                      IF temp_download_dir = "created"
                        THEN IF outcome = "rmtree_failed"
                               THEN "remove_failed" ELSE "removed"
                        ELSE temp_download_dir
                 /\ exit_code' = IF exit_code = None THEN 0 ELSE exit_code
                 /\ UNCHANGED raised
  /\ pc' = "exited"
  /\ UNCHANGED << store, wmFile, argv, post_url, since_time_str, filter_since_time,
                  listVars, stageVars, post_payloads, post_log, save_result,
                  error_output, wmBefore, override, histVars, nameVars, peer >>

\* the names whose POST of this run did not get a 2xx response
FailedPosts ==
  { post_log[i].filename :
      i \in { h \in 1..Len(post_log) :
                ~ (200 <= post_log[h].status /\ post_log[h].status < 300) } }

\* the names of the members of the groups this run rejected
RejectedNames ==
  UNION { { raw_grouped_files[k][m].name : m \in 1..Len(raw_grouped_files[k]) } :
          k \in { h \in DOMAIN raw_grouped_files :
                    \A i \in 1..Len(processed_groups_list) :
                      processed_groups_list[i].common_name # h } }

\* the names of the entries this run included
IncludedNames ==
  { processed_other_items[i].name : i \in 1..Len(processed_other_items) }
    \cup UNION { { raw_grouped_files[k][m].name :
                     m \in 1..Len(raw_grouped_files[k]) } :
                 k \in DOMAIN raw_grouped_files }

\* the names of the entries this run listed without last_write_time
UnreadNames ==
  { initial_file_list[i].name :
      i \in { h \in 1..Len(initial_file_list) :
                initial_file_list[h].last_write_time = None } }

\* the next invocation of the script, a scheduled one, against the same
\* store
NextRun ==
  /\ pc = "exited"
  /\ prevClean' = (exit_code = 0 /\ ~ override /\ save_result \in {"none", "ok"})
  /\ lost' = IF exit_code = 0 /\ save_result = "ok"
               THEN lost \cup FailedPosts ELSE lost
  /\ dropped' = IF exit_code = 0 /\ save_result \in {"none", "ok"}
                  THEN dropped \cup RejectedNames ELSE dropped
  /\ processed' = IF exit_code = 0 /\ save_result \in {"none", "ok"}
                    THEN processed \cup IncludedNames ELSE processed
  /\ split' = IF exit_code = 0 /\ save_result = "ok"
                THEN split \cup RejectedNames ELSE split
  /\ missed' = IF exit_code = 0 /\ save_result = "ok" /\ filter_since_time # None
                 THEN missed \cup (UnreadNames \X {max_last_write_time})
                 ELSE missed
  /\ pc' = "main"
  /\ post_url' = FALSE
  /\ since_time_str' = NoText
  /\ filter_since_time' = None
  /\ initial_file_list' = <<>>
  /\ raw_grouped_files' = EmptyMap
  /\ processed_other_items' = <<>>
  /\ max_last_write_time' = None
  /\ max_creation_time' = None
  /\ group_keys' = <<>>
  /\ g' = 1
  /\ group' = <<>>
  /\ files' = <<>>
  /\ processed_groups_list' = <<>>
  /\ post_payloads' = <<>>
  /\ post_log' = <<>>
  /\ save_result' = "none"
  /\ session' = "none"
  /\ temp_download_dir' = "none"
  /\ exit_code' = None
  /\ error_output' = NoError
  /\ raised' = "none"
  /\ faults' = 0
  /\ wmBefore' = NoFile
  /\ override' = FALSE
  /\ argv' \in ScheduledCommandLines
  /\ UNCHANGED << store, wmFile, nameVars, peer >>

\* one invocation of the script
Next ==
  \/ Main
  \/ ParseSinceTime
  \/ Connect
  \/ ListFiles
  \/ FilterAndGroup
  \/ GateGroup
  \/ StageMember
  \/ Payloads
  \/ PostItem
  \/ SaveWatermark
  \/ Finally

Spec == Init /\ [][Next]_vars

\* successive scheduled invocations of the script against one store
NextRuns ==
  \/ Main
  \/ ParseSinceTime
  \/ Connect
  \/ ListFiles
  \/ FilterAndGroup
  \/ GateGroup
  \/ StageMember
  \/ Payloads
  \/ PostItem
  \/ SaveWatermark
  \/ Finally
  \/ NextRun

\* the first run is a scheduled one and finds no watermark file
InitRuns ==
  /\ store \in Stores
  /\ argv \in ScheduledCommandLines
  /\ wmFile = NoFile
  /\ RunInit
  /\ prevClean = FALSE
  /\ lost = {}
  /\ dropped = {}
  /\ processed = {}
  /\ split = {}
  /\ missed = {}
  /\ peer = PeerIdle
  /\ filename = <<>>
  /\ identifier = NoneStr

SpecRuns == InitRuns /\ [][NextRuns]_vars

\* the states of the watermark file that hold no watermark
WatermarkFiles ==
  {NoFile, CorruptFile, UnreadableFile, ShapeFile, JsonFile(NoText),
   JsonFile(BadText)}

\* a scheduled run that finds a watermark file without a watermark
InitLoad ==
  /\ store \in Stores
  /\ argv \in ScheduledCommandLines
  /\ wmFile \in WatermarkFiles
  /\ RunInit
  /\ prevClean = FALSE
  /\ lost = {}
  /\ dropped = {}
  /\ processed = {}
  /\ split = {}
  /\ missed = {}
  /\ peer = PeerIdle
  /\ filename = <<>>
  /\ identifier = NoneStr

SpecLoad == InitLoad /\ [][Next]_vars

(***************************************************************************)
(* Specification of the processing order: the folder holds files of the    *)
(* records "a" and "B", those of "a" listed first, every file written at   *)
(* time 1; the run is a scheduled one and finds no watermark file.         *)
(***************************************************************************)
CataloguePairs ==
  << File(<<"2", "_", "a", ".", "j", "s", "o", "n">>, 3, 1),
     File(<<"1", "_", "a", ".", "p", "d", "f">>, 2, 1),
     File(<<"4", "_", "B", ".", "p", "d", "f">>, 2, 1),
     File(<<"3", "_", "B", ".", "j", "s", "o", "n">>, 3, 1) >>

StoresPairs ==
  UNION { { [i \in 1..n |-> StoreEntry(CataloguePairs[s[i]], 1)] :
              s \in SubListings(CataloguePairs, n) } :
          n \in 0..Len(CataloguePairs) }

InitOrder ==
  /\ store \in StoresPairs
  /\ argv \in ScheduledCommandLines
  /\ wmFile = NoFile
  /\ RunInit
  /\ prevClean = FALSE
  /\ lost = {}
  /\ dropped = {}
  /\ processed = {}
  /\ split = {}
  /\ missed = {}
  /\ peer = PeerIdle
  /\ filename = <<>>
  /\ identifier = NoneStr

SpecOrder == InitOrder /\ [][Next]_vars

(***************************************************************************)
(* Specification of the kinds of entries: the folder holds a directory,    *)
(* two files of the same record, a file whose identifier is empty, one     *)
(* whose identifier is None, and two entries that changed kind between     *)
(* listPath and getAttributes.                                             *)
(***************************************************************************)
\* an entry that listPath reports as a directory and getAttributes as a file
\* of content bytes
DirectoryThenFile(name, content, ctime) ==
  [Directory(name, ctime) EXCEPT !.attr_directory = FALSE, !.content = content]

\* an entry that listPath reports as a file and getAttributes as a directory
FileThenDirectory(name, ctime) ==
  [File(name, 0, ctime) EXCEPT !.attr_directory = TRUE]

CatalogueKinds ==
  << Directory(<<"7", "_", "A", ".", "p", "d", "f">>, 1),
     File(<<"1", "_", "A", ".", "j", "s", "o", "n">>, 3, 1),
     File(<<"5", "_", ".", "j", "s", "o", "n">>, 3, 1),
     File(<<"3", "_", "A", ".", "P", "D", "F">>, 4, 1),
     File(<<"6", "_", "A">>, 4, 1),
     DirectoryThenFile(<<"2", "_", "B", ".", "p", "d", "f">>, 2, 1),
     FileThenDirectory(<<"4", "_", "B", ".", "j", "s", "o", "n">>, 1) >>

StoresKinds ==
  UNION { { [i \in 1..n |-> StoreEntry(CatalogueKinds[s[i]], lw[i])] :
              s \in SubListings(CatalogueKinds, n), lw \in [1..n -> {None, 1}] } :
          n \in 0..MaxEntries }

InitKinds ==
  /\ store \in StoresKinds
  /\ argv \in ScheduledCommandLines
  /\ wmFile = NoFile
  /\ RunInit
  /\ prevClean = FALSE
  /\ lost = {}
  /\ dropped = {}
  /\ processed = {}
  /\ split = {}
  /\ missed = {}
  /\ peer = PeerIdle
  /\ filename = <<>>
  /\ identifier = NoneStr

SpecKinds == InitKinds /\ [][Next]_vars

(***************************************************************************)
(* Specification of a folder that grows: successive scheduled runs, and    *)
(* between two runs a file of the record "A" may appear in the folder,     *)
(* behind the entries it holds, with any last_write_time.  The folder has  *)
(* at most one entry at the start.                                         *)
(***************************************************************************)
CatalogueArrivals ==
  << File(<<"1", "_", "A", ".", "j", "s", "o", "n">>, 3, 1),
     File(<<"3", "_", "A", ".", "P", "D", "F">>, 4, 1),
     File(<<"5", "_", "A", ".", "j", "s", "o", "n">>, 3, 1) >>

StoresArrivals ==
  UNION { { [i \in 1..n |-> StoreEntry(CatalogueArrivals[s[i]], lw[i])] :
              s \in SubListings(CatalogueArrivals, n),
              lw \in [1..n -> LwChoices] } :
          n \in 0..1 }

\* the names of the entries of the folder
StoreNames == { store[i].name : i \in 1..Len(store) }

\* a file is written to the folder while no run is under way
Arrive ==
  /\ pc = "main"
  /\ \E j \in 1..Len(CatalogueArrivals), lw \in 1..MaxTime :
       /\ CatalogueArrivals[j].name \notin StoreNames
       /\ store' = Append(store, StoreEntry(CatalogueArrivals[j], lw))
  /\ UNCHANGED << wmFile, argv, runVars, histVars, nameVars, peer >>

InitArrive ==
  /\ store \in StoresArrivals
  /\ argv \in ScheduledCommandLines
  /\ wmFile = NoFile
  /\ RunInit
  /\ prevClean = FALSE
  /\ lost = {}
  /\ dropped = {}
  /\ processed = {}
  /\ split = {}
  /\ missed = {}
  /\ peer = PeerIdle
  /\ filename = <<>>
  /\ identifier = NoneStr

NextArrive ==
  \/ Main
  \/ ParseSinceTime
  \/ Connect
  \/ ListFiles
  \/ FilterAndGroup
  \/ GateGroup
  \/ StageMember
  \/ Payloads
  \/ PostItem
  \/ SaveWatermark
  \/ Finally
  \/ NextRun
  \/ Arrive

SpecArrive == InitArrive /\ [][NextArrive]_vars

(***************************************************************************)
(* Specification of transient metadata failures: successive scheduled      *)
(* runs, the first of which finds a watermark; between two runs the        *)
(* attributes of an entry that getAttributes failed for may become         *)
(* readable, with any last_write_time.                                     *)
(***************************************************************************)
\* the entry of the catalogues called name
CatalogueEntry(name) ==
  CHOOSE c \in UNION { { cat[i] : i \in 1..Len(cat) } : cat \in Catalogues } :
    c.name = name

\* getAttributes succeeds from now on for an entry it failed for
Heal ==
  /\ pc = "main"
  /\ \E i \in 1..Len(store), lw \in 1..MaxTime :
       /\ store[i].last_write_time = None
       /\ store' = [store EXCEPT
                      ![i] = StoreEntry(CatalogueEntry(store[i].name), lw)]
  /\ UNCHANGED << wmFile, argv, runVars, histVars, nameVars, peer >>

StoresHeal ==
  UNION { { [i \in 1..n |-> StoreEntry(CatalogueRecord[s[i]], lw[i])] :
              s \in SubListings(CatalogueRecord, n),
              lw \in [1..n -> LwChoices] } :
          n \in 0..Len(CatalogueRecord) }

InitHeal ==
  /\ store \in StoresHeal
  /\ argv \in ScheduledCommandLines
  /\ wmFile \in { JsonFile(IsoFormat(t)) : t \in 1..MaxTime }
  /\ RunInit
  /\ prevClean = FALSE
  /\ lost = {}
  /\ dropped = {}
  /\ processed = {}
  /\ split = {}
  /\ missed = {}
  /\ peer = PeerIdle
  /\ filename = <<>>
  /\ identifier = NoneStr

NextHeal ==
  \/ Main
  \/ ParseSinceTime
  \/ Connect
  \/ ListFiles
  \/ FilterAndGroup
  \/ GateGroup
  \/ StageMember
  \/ Payloads
  \/ PostItem
  \/ SaveWatermark
  \/ Finally
  \/ NextRun
  \/ Heal

SpecHeal == InitHeal /\ [][NextHeal]_vars

(***************************************************************************)
(* Specification of two overlapping runs: next to the run modelled step by *)
(* step, a second process runs the script with --post-url and without      *)
(* --since-time on the same folder and the same watermark file; each of    *)
(* its steps is atomic and none of them fails.  The folder holds a record  *)
(* and another file may appear until the first process starts.             *)
(***************************************************************************)
\* the names the second process POSTs: the members of the admitted groups
\* of its listing that get a payload
PeerPosted(list, since) ==
  LET acc == FilterLoop(list, 1, FilterAcc0, since)
      admitted == { k \in DOMAIN acc.raw_grouped_files :
                      GateAdmits(acc.raw_grouped_files[k]) }
  IN UNION { { acc.raw_grouped_files[k][m].name :
                 m \in { h \in 1..Len(acc.raw_grouped_files[k]) :
                           InPayload(StagedItem(acc.raw_grouped_files[k][h],
                                                "ok", store)) } } :
             k \in admitted }

\* __main__ of the second process: load_last_run_timestamp and the parse of
\* the loaded text
PeerMain ==
  /\ peer.pc = "main"
  /\ ~ LoadRaises(wmFile)
  /\ load_last_run_timestamp(wmFile).fmt # "bad"
  /\ peer' = [peer EXCEPT
                !.pc = "list",
                !.filter_since_time =
                   IF load_last_run_timestamp(wmFile).fmt = "iso"
                     THEN load_last_run_timestamp(wmFile).val ELSE None]
  /\ UNCHANGED << store, wmFile, argv, runVars, histVars, nameVars >>

\* connect and list_files of the second process
PeerList ==
  /\ peer.pc = "list"
  /\ peer' = [peer EXCEPT !.pc = "process",
                          !.initial_file_list = list_files(store)]
  /\ UNCHANGED << store, wmFile, argv, runVars, histVars, nameVars >>

\* the filter, the gate, the staging and the POSTs of the second process
PeerProcess ==
  /\ peer.pc = "process"
  /\ peer' = [peer EXCEPT
                !.pc = "save",
                !.max_last_write_time =
                   FilterLoop(peer.initial_file_list, 1, FilterAcc0,
                              peer.filter_since_time).max_last_write_time,
                !.posted = PeerPosted(peer.initial_file_list,
                                      peer.filter_since_time)]
  /\ UNCHANGED << store, wmFile, argv, runVars, histVars, nameVars >>

\* the watermark step of the second process
PeerSave ==
  /\ peer.pc = "save"
  /\ IF ShouldSave(peer.max_last_write_time)
       THEN /\ wmFile' = save_last_run_timestamp(wmFile,
                                                 peer.max_last_write_time, "ok")
            /\ peer' = [peer EXCEPT !.pc = "done", !.saved = TRUE]
       ELSE /\ peer' = [peer EXCEPT !.pc = "done"]
            /\ UNCHANGED wmFile
  /\ UNCHANGED << store, argv, runVars, histVars, nameVars >>

\* the folder holds the .json and the .PDF of the record "A"
StoresConc ==
  { << StoreEntry(CatalogueArrivals[1], a), StoreEntry(CatalogueArrivals[2], b) >> :
      a, b \in 1..MaxTime }

InitConc ==
  /\ store \in StoresConc
  /\ argv \in ScheduledCommandLines
  /\ wmFile \in {NoFile, JsonFile(IsoFormat(1))}
  /\ RunInit
  /\ prevClean = FALSE
  /\ lost = {}
  /\ dropped = {}
  /\ processed = {}
  /\ split = {}
  /\ missed = {}
  /\ peer = [PeerIdle EXCEPT !.pc = "main"]
  /\ filename = <<>>
  /\ identifier = NoneStr

NextConc ==
  \/ Main
  \/ ParseSinceTime
  \/ Connect
  \/ ListFiles
  \/ FilterAndGroup
  \/ GateGroup
  \/ StageMember
  \/ Payloads
  \/ PostItem
  \/ SaveWatermark
  \/ Finally
  \/ Arrive
  \/ PeerMain
  \/ PeerList
  \/ PeerProcess
  \/ PeerSave

SpecConc == InitConc /\ [][NextConc]_vars

(***************************************************************************)
(* Specification of extract_common_name alone: every name of at most       *)
(* MaxNameLen characters over NameChars is given to the function.          *)
(***************************************************************************)
NameChars == {"_", ".", "a", "b"}

NameInputs == UNION { [1..n -> NameChars] : n \in 0..MaxNameLen }

InitNames ==
  /\ store = <<>>
  /\ argv = [since_time |-> NoText, post_url |-> FALSE]
  /\ wmFile = NoFile
  /\ RunInit
  /\ prevClean = FALSE
  /\ lost = {}
  /\ dropped = {}
  /\ processed = {}
  /\ split = {}
  /\ missed = {}
  /\ peer = PeerIdle
  /\ filename \in NameInputs
  /\ identifier = NoneStr

ExtractName ==
  /\ pc = "main"
  /\ identifier' = extract_common_name(filename)
  /\ pc' = "named"
  /\ UNCHANGED << store, wmFile, argv, post_url, since_time_str, filter_since_time,
                  listVars, stageVars, post_payloads, post_log, save_result,
                  session, temp_download_dir, errVars, faults, wmBefore,
                  override, histVars, filename, peer >>

NextNames == ExtractName

SpecNames == InitNames /\ [][NextNames]_vars


(***************************************************************************)
(* Notions used by the properties, stated on the state of the run.         *)
(***************************************************************************)
\* the filter and grouping loop of this run is over
FilterDone == temp_download_dir # "none"

\* every group has been gated and staged and the payloads are built
StagingDone == pc = "post" \/ pc = "save" \/ (pc \in {"finally", "exited"} /\ exit_code # 1)

\* the run ended without a fatal error
Completed == pc = "exited" /\ exit_code = 0

\* the item went through the filter: it is in a raw group or in the other bucket
IsIncluded(item) ==
  \/ \E i \in 1..Len(processed_other_items) : processed_other_items[i] = item
  \/ \E k \in DOMAIN raw_grouped_files :
       \E i \in 1..Len(raw_grouped_files[k]) : raw_grouped_files[k][i] = item

\* the name ends with the extension suf, letter case ignored
HasSuffixCI(name, suf) ==
  /\ Len(name) > Len(suf)
  /\ \A i \in 1..Len(suf) :
       LowerChar(name[Len(name) - Len(suf) + i]) = suf[i]

IsJsonName(name) == HasSuffixCI(name, ExtJson)
IsPdfName(name) == HasSuffixCI(name, ExtPdf)

\* the identifier is the common_name of an admitted group
IsAdmitted(k) ==
  \E i \in 1..Len(processed_groups_list) : processed_groups_list[i].common_name = k

\* position of the entry called name in the listing
ListingIndex(name) ==
  CHOOSE i \in 1..Len(initial_file_list) : initial_file_list[i].name = name

\* extension priority as the specification gives it
Priority(name) ==
  IF IsJsonName(name) THEN 0 ELSE IF IsPdfName(name) THEN 1 ELSE 999

\* the sequence is ordered by priority, ties in listing order: each member
\* comes before its successor in that (total) order
OrderedMembers(names) ==
  \A i \in 1..(Len(names) - 1) :
    \/ Priority(names[i]) < Priority(names[i + 1])
    \/ /\ Priority(names[i]) = Priority(names[i + 1])
       /\ ListingIndex(names[i]) < ListingIndex(names[i + 1])

\* the file names of a sequence of items
NamesOf(items) == [i \in 1..Len(items) |-> items[i].name]

\* the file names of the payloads built for the group k, in payload order
PayloadNamesOf(k) ==
  LET IsOfGroup(pl) == pl.common_name = k
      sel == SelectSeq(post_payloads, IsOfGroup)
  IN [i \in 1..Len(sel) |-> sel[i].filename]

(***************************************************************************)
(* C1 -- Change filter: once the filter loop has run, a listed entry is    *)
(* included if and only if the filter timestamp is absent, or the entry's  *)
(* last_write_time is present and strictly greater than it.                *)
(***************************************************************************)
C1_FilterPolicy ==
  FilterDone =>
    \A i \in 1..Len(initial_file_list) :
      LET item == initial_file_list[i]
      IN IsIncluded(item) <=>
           \/ filter_since_time = None
           \/ /\ item.last_write_time # None
              /\ item.last_write_time > filter_since_time

\* a run with watermark T that excluded an entry written at T, although it
\* was created later, and included an entry written at T + 1
C1_Witness ==
  /\ FilterDone
  /\ filter_since_time # None
  /\ \E i, j \in 1..Len(initial_file_list) :
       /\ initial_file_list[i].last_write_time = filter_since_time
       /\ initial_file_list[i].creation_time > filter_since_time
       /\ ~ IsIncluded(initial_file_list[i])
       /\ initial_file_list[j].last_write_time = filter_since_time + 1
       /\ IsIncluded(initial_file_list[j])

(***************************************************************************)
(* C2 -- Completeness gate: a raw group that has been processed is         *)
(* admitted if and only if it has a member whose name ends in .json and a  *)
(* member whose name ends in .pdf, letter case ignored; and only raw       *)
(* groups are admitted.                                                    *)
(***************************************************************************)
C2_Gate ==
  /\ \A i \in 1..Len(group_keys) :
       i < g =>
         LET k == group_keys[i]
             grp == raw_grouped_files[k]
         IN IsAdmitted(k) <=>
              /\ \E m \in 1..Len(grp) : IsJsonName(grp[m].name)
              /\ \E m \in 1..Len(grp) : IsPdfName(grp[m].name)
  /\ \A i \in 1..Len(processed_groups_list) :
       processed_groups_list[i].common_name \in DOMAIN raw_grouped_files

\* a run that admitted a group whose .pdf member is written in upper case
\* and rejected a group made of .pdf files only
C2_Witness ==
  /\ Completed
  /\ \E i \in 1..Len(processed_groups_list) :
       \E m \in 1..Len(processed_groups_list[i].files) :
         SplitExt(processed_groups_list[i].files[m].name) = <<".", "P", "D", "F">>
  /\ \E k \in DOMAIN raw_grouped_files :
       /\ ~ IsAdmitted(k)
       /\ \A m \in 1..Len(raw_grouped_files[k]) :
            IsPdfName(raw_grouped_files[k][m].name)

(***************************************************************************)
(* C3 -- Member ordering: the members of every admitted group, the members *)
(* being staged, and the payloads of every group are ordered by extension  *)
(* priority (.json, then .pdf, then the rest), ties in listing order.      *)
(***************************************************************************)
C3_MemberOrder ==
  /\ \A i \in 1..Len(processed_groups_list) :
       OrderedMembers(NamesOf(processed_groups_list[i].files))
  /\ OrderedMembers(NamesOf(group))
  /\ \A k \in DOMAIN raw_grouped_files : OrderedMembers(PayloadNamesOf(k))

\* a delivered group of three members, listed as .txt, .json, .PDF
C3_Witness ==
  /\ Completed
  /\ \E i \in 1..Len(processed_groups_list) :
       LET fs == processed_groups_list[i].files
       IN /\ Len(fs) = 3
          /\ IsJsonName(fs[1].name) /\ IsPdfName(fs[2].name)
          /\ Priority(fs[3].name) = 999
          /\ ListingIndex(fs[3].name) < ListingIndex(fs[1].name)
          /\ PayloadNamesOf(processed_groups_list[i].common_name) = NamesOf(fs)

(***************************************************************************)
(* C4 -- Identifier derivation.                                            *)
(***************************************************************************)
\* the name has a first "_" at i and the remainder a first "." at j
FirstUnderscore(name, i) ==
  /\ i \in 1..Len(name) /\ name[i] = "_"
  /\ \A h \in 1..(i - 1) : name[h] # "_"

FirstDotAfter(name, i, j) ==
  /\ j \in (i + 1)..Len(name) /\ name[j] = "."
  /\ \A h \in (i + 1)..(j - 1) : name[h] # "."

\* C4 as claimed: no "_" gives null; otherwise the identifier is the
\* remainder after the first "_" cut at its first ".", the whole remainder
\* when it has no "."
C4_Original ==
  pc = "named" =>
    /\ (\A i \in 1..Len(filename) : filename[i] # "_") => identifier = NoneStr
    /\ \A i \in 1..Len(filename) :
         FirstUnderscore(filename, i) =>
           /\ \A j \in 1..Len(filename) :
                FirstDotAfter(filename, i, j) =>
                  identifier = Str(SubSeq(filename, i + 1, j - 1))
           /\ (\A j \in (i + 1)..Len(filename) : filename[j] # ".") =>
                identifier = Str(SubSeq(filename, i + 1, Len(filename)))

\* C4 -- Identifier derivation, amended: the identifier is null when the
\* name has no "_" and also when the remainder after the first "_" has no
\* "."; otherwise it is the remainder cut at its first ".".
C4_Identifier ==
  pc = "named" =>
    /\ (\A i \in 1..Len(filename) : filename[i] # "_") => identifier = NoneStr
    /\ \A i \in 1..Len(filename) :
         FirstUnderscore(filename, i) =>
           /\ \A j \in 1..Len(filename) :
                FirstDotAfter(filename, i, j) =>
                  identifier = Str(SubSeq(filename, i + 1, j - 1))
           /\ (\A j \in (i + 1)..Len(filename) : filename[j] # ".") =>
                identifier = NoneStr

\* the identifier of "a_b." is "b"
C4_Witness ==
  /\ pc = "named"
  /\ filename = <<"a", "_", "b", ".">>
  /\ identifier = Str(<<"b">>)


(***************************************************************************)
(* Notions on the watermark and on staged members.                         *)
(***************************************************************************)
\* the file holds a watermark
HasWatermark(file) == file.kind = "json" /\ file.last_write_time.fmt = "iso"
WatermarkOf(file) == file.last_write_time.val

\* this run included an entry
IncludedAny ==
  \E i \in 1..Len(initial_file_list) : IsIncluded(initial_file_list[i])

\* the last_write_time values of the included entries
IncludedTimes ==
  { initial_file_list[i].last_write_time :
      i \in { h \in 1..Len(initial_file_list) :
                /\ IsIncluded(initial_file_list[h])
                /\ initial_file_list[h].last_write_time # None } }

IsMaxIncluded(m) == m \in IncludedTimes /\ \A t \in IncludedTimes : t <= m

\* the members of the admitted groups, as pairs of group and member index
StagedMembers ==
  { << i, m >> \in (1..Len(processed_groups_list)) \X (1..MaxEntries + 1) :
      m <= Len(processed_groups_list[i].files) }

Member(im) == processed_groups_list[im[1]].files[im[2]]

HasPayload(name) ==
  \E i \in 1..Len(post_payloads) : post_payloads[i].filename = name

WasPosted(name) ==
  \E i \in 1..Len(post_log) : post_log[i].filename = name

(***************************************************************************)
(* C5 -- Idempotence: a run that follows a completed run and uses the      *)
(* watermark that run left admits no group.  Stated for the first runs     *)
(* that used the loaded watermark themselves and did not fail to write the *)
(* new one; the remote store never changes in this specification.          *)
(***************************************************************************)
C5_Idempotence ==
  (prevClean /\ ~ override) => processed_groups_list = <<>>

C7_Original ==
  (Completed /\ IncludedTimes # {})
    => HasWatermark(wmFile) /\ IsMaxIncluded(WatermarkOf(wmFile))

\* C7 -- Watermark value, amended: in a completed run in which an included
\* entry has a last_write_time, the timestamp given to
\* save_last_run_timestamp is the maximum last_write_time of the included
\* entries, whatever the downloads and POSTs did, and it is the persisted
\* watermark when the write of the file succeeds.
C7_WatermarkValue ==
  (Completed /\ IncludedTimes # {})
    => /\ save_result # "none"
       /\ IsMaxIncluded(max_last_write_time)
       /\ save_result = "ok" =>
            wmFile = JsonFile(IsoFormat(max_last_write_time))

\* a run with a failed download and a failed POST whose watermark comes from
\* an entry that is not a member of an admitted group
C7_Witness ==
  /\ Completed /\ save_result = "ok"
  /\ IsMaxIncluded(WatermarkOf(wmFile))
  /\ \E im \in StagedMembers : ~ Member(im).download_success
  /\ \E i \in 1..Len(post_log) : ~ post_log[i].success
  /\ \A im \in StagedMembers : Member(im).last_write_time # WatermarkOf(wmFile)

(***************************************************************************)
(* C8 -- Partial failure isolation: when the staging of a member of an     *)
(* admitted group failed, that member has no payload data, every other     *)
(* member whose own download and encoding succeeded has a delivery         *)
(* envelope (and a POST when an endpoint is configured), the run exits     *)
(* with 0 and the watermark step writes the watermark.  Stated for the     *)
(* runs that no exception ended.                                           *)
(***************************************************************************)
C8_Isolation ==
  (pc = "exited" /\ raised = "none") =>
    \A im \in StagedMembers :
      ~ Member(im).download_success =>
        /\ Member(im).blob = None
        /\ Member(im).mime_type = NoMime
        /\ \A other \in StagedMembers \ {im} :
             Member(other).download_success =>
               /\ HasPayload(Member(other).name)
               /\ post_url => WasPosted(Member(other).name)
        /\ exit_code = 0
        /\ max_last_write_time # None => save_result # "none"

(***************************************************************************)
(* C9 -- Delivery input set: once the payloads are built, they are exactly *)
(* the members of admitted groups with download_success, one payload per   *)
(* such member.                                                            *)
(***************************************************************************)
C9_DeliveryInput ==
  StagingDone =>
    /\ \A im \in StagedMembers :
         HasPayload(Member(im).name) <=> Member(im).download_success
    /\ Len(post_payloads) =
         Cardinality({ im \in StagedMembers : Member(im).download_success })

(***************************************************************************)
(* C10 -- Per-item delivery: with an endpoint configured, the i-th POST of *)
(* the run is the POST of the i-th payload, and once the delivery loop is  *)
(* over there are as many POSTs as payloads, whatever their outcomes.      *)
(***************************************************************************)
C10_PostEach ==
  (post_url /\ StagingDone) =>
    /\ Len(post_log) <= Len(post_payloads)
    /\ \A i \in 1..Len(post_log) :
         post_log[i].filename = post_payloads[i].filename
    /\ pc # "post" => Len(post_log) = Len(post_payloads)

\* a completed run whose first POST failed and whose later payloads were
\* POSTed all the same
C10_Witness ==
  /\ Completed /\ post_url
  /\ Len(post_payloads) >= 2
  /\ Len(post_log) = Len(post_payloads)
  /\ ~ post_log[1].success
  /\ post_log[2].success

(***************************************************************************)
(* Notions on successive runs.                                             *)
(***************************************************************************)
\* this run has loaded a watermark from the file and filters with it
UsesWatermark == pc # "main" /\ ~ override /\ HasWatermark(wmBefore)

\* this run included the entry called name
NameIncluded(name) ==
  \E i \in 1..Len(initial_file_list) :
    /\ initial_file_list[i].name = name
    /\ IsIncluded(initial_file_list[i])

(***************************************************************************)
(* C11 -- Failed deliveries are lost: a file whose POST failed in a        *)
(* completed run that wrote the watermark is neither included nor POSTed   *)
(* by any later run that filters with the watermark of the file.           *)
(***************************************************************************)
C11_Lost ==
  UsesWatermark =>
    \A name \in lost : ~ NameIncluded(name) /\ ~ WasPosted(name)

\* a later run with an endpoint that listed the folder, with the lost file
\* in it, and completed
C11_Witness ==
  /\ Completed /\ UsesWatermark /\ post_url
  /\ \E name \in lost :
       \E i \in 1..Len(initial_file_list) : initial_file_list[i].name = name

(***************************************************************************)
(* Notions on the end of a run.                                            *)
(***************************************************************************)
\* the pipeline was aborted by a fatal error: the except clause was entered,
\* or an exception ended the process before the try statement
FatalError ==
  error_output # NoError \/ raised \in {"ValueError", "OSError", "AttributeError"}

\* the delivery step is over: the payloads are built and, with an endpoint,
\* every one of them has been POSTed
DeliveryDone ==
  /\ g > Len(group_keys)
  /\ post_payloads = BuildPayloads(processed_groups_list, 1)
  /\ post_url => Len(post_log) = Len(post_payloads)

(***************************************************************************)
(* C12 -- Watermark write discipline: in a run save_last_run_timestamp is  *)
(* called only once the delivery step is over, without a fatal error, and  *)
(* with an included entry that has a last_write_time; the content of the   *)
(* file is then the result of that one call on the file as the run found   *)
(* it; and a run that ended on a fatal error, or in which no included      *)
(* entry has a last_write_time, leaves the file as it found it.            *)
(***************************************************************************)
C12_WriteDiscipline ==
  pc # "main" =>
    /\ save_result = "none" => wmFile = wmBefore
    /\ save_result # "none" =>
         /\ pc \in {"finally", "exited"}
         /\ ~ FatalError
         /\ DeliveryDone
         /\ IncludedTimes # {}
         /\ wmFile = save_last_run_timestamp(wmBefore, max_last_write_time,
                                             save_result)
    /\ (pc = "exited" /\ (FatalError \/ IncludedTimes = {})) =>
         wmFile = wmBefore

\* a completed run with an endpoint and a failed POST that replaced the
\* watermark of the file
C12_Witness ==
  /\ Completed /\ post_url
  /\ save_result = "ok"
  /\ HasWatermark(wmBefore) /\ wmFile # wmBefore
  /\ \E i \in 1..Len(post_log) : ~ post_log[i].success

(***************************************************************************)
(* C13 -- Watermark load tolerance: a run without --since-time that finds  *)
(* a watermark file holding no watermark (absent, unreadable, not JSON,    *)
(* not a JSON object, without the key, or with a text that is no           *)
(* timestamp) is not ended by an exception of the load or of the parse,    *)
(* has no filter timestamp and includes every listed entry.                *)
(***************************************************************************)
C13_LoadTolerance ==
  (pc # "main" /\ ~ override /\ ~ HasWatermark(wmBefore)) =>
    /\ raised \notin {"ValueError", "OSError", "AttributeError"}
    /\ pc # "since" => filter_since_time = None
    /\ FilterDone =>
         \A i \in 1..Len(initial_file_list) : IsIncluded(initial_file_list[i])

(***************************************************************************)
(* C14 -- Guaranteed cleanup: when the process ends, close() has been      *)
(* called on a session that was opened or attempted, and the temporary     *)
(* download directory, if it was created, is removed or its removal was    *)
(* attempted.                                                              *)
(***************************************************************************)
C14_Cleanup ==
  pc = "exited" =>
    /\ session \notin {"open", "failed"}
    /\ temp_download_dir # "created"

C16_FatalReport ==
  (pc = "exited" /\ raised \in {"ValueError", "SystemExit"}) =>
    /\ error_output.status = "error"
    /\ exit_code # 0
    /\ save_result = "none" /\ wmFile = wmBefore

(***************************************************************************)
(* C17 -- Delivery order: the groups are processed, and admitted, in       *)
(* ascending order of identifier; the i-th POST is the POST of the i-th    *)
(* payload; and a payload precedes another if and only if its identifier   *)
(* is smaller, or they are of one group and it precedes the other in the   *)
(* member order of the group.                                              *)
(***************************************************************************)
\* position of the member called name among the staged members of group cn
MemberPos(cn, name) ==
  LET grp == CHOOSE i \in 1..Len(processed_groups_list) :
               processed_groups_list[i].common_name = cn
      fs == processed_groups_list[grp].files
  IN CHOOSE m \in 1..Len(fs) : fs[m].name = name

\* the payload a comes before the payload b in group order, then member order
DeliveredBefore(a, b) ==
  \/ StrLess(a.common_name, b.common_name)
  \/ /\ a.common_name = b.common_name
     /\ MemberPos(a.common_name, a.filename) < MemberPos(b.common_name, b.filename)

C17_DeliveryOrder ==
  /\ \A i, j \in 1..Len(group_keys) :
       i < j => StrLess(group_keys[i], group_keys[j])
  /\ \A i, j \in 1..Len(processed_groups_list) :
       i < j => StrLess(processed_groups_list[i].common_name,
                        processed_groups_list[j].common_name)
  /\ \A i \in 1..Len(post_log) :
       post_log[i].filename = post_payloads[i].filename
  /\ \A i, j \in 1..Len(post_payloads) :
       i # j => (i < j <=> DeliveredBefore(post_payloads[i], post_payloads[j]))

\* a completed run that POSTed the two files of "B", then the two of "a",
\* although the files of "a" are listed first
C17_Witness ==
  /\ Completed /\ post_url
  /\ Len(initial_file_list) = 4 /\ Len(post_log) = 4
  /\ extract_common_name(initial_file_list[1].name) = Str(<<"a">>)
  /\ group_keys = << <<"B">>, <<"a">> >>
  /\ post_log[1].filename = <<"3", "_", "B", ".", "j", "s", "o", "n">>
  /\ post_log[3].filename = <<"2", "_", "a", ".", "j", "s", "o", "n">>

(***************************************************************************)
(* C18 -- Rejected groups are dropped: no member of a group that failed    *)
(* the gate is staged, gets a payload, is POSTed or is put in the other    *)
(* bucket; and the members of the groups rejected by an earlier completed  *)
(* run are not included by a later scheduled run.                          *)
(***************************************************************************)
C18_Rejected ==
  /\ (pc \in {"post", "save"} \/ Completed) =>
       \A name \in RejectedNames :
         /\ \A im \in StagedMembers : Member(im).name # name
         /\ ~ HasPayload(name) /\ ~ WasPosted(name)
         /\ \A i \in 1..Len(processed_other_items) :
              processed_other_items[i].name # name
  /\ (pc # "main" /\ ~ override) =>
       \A name \in dropped : ~ NameIncluded(name)

(***************************************************************************)
(* C19 -- No endpoint configured: a run without --post-url issues no POST, *)
(* and, unless an exception aborts it or ends it in the finally block, it  *)
(* gates and stages every group, builds the payloads, calls                *)
(* save_last_run_timestamp with the maximum last_write_time of the         *)
(* included entries, cleans up and exits with code 0.                      *)
(***************************************************************************)
C19_NoEndpoint ==
  ~ post_url =>
    /\ post_log = <<>>
    /\ (pc = "exited" /\ FilterDone /\ ~ FatalError /\ raised = "none") =>
         /\ DeliveryDone
         /\ IncludedTimes # {} =>
              /\ save_result # "none"
              /\ IsMaxIncluded(max_last_write_time)
              /\ save_result = "ok" =>
                   wmFile = JsonFile(IsoFormat(max_last_write_time))
         /\ session = "closed"
         /\ temp_download_dir \in {"removed", "remove_failed"}
         /\ exit_code = 0

\* a completed run without endpoint that staged a group, built payloads and
\* wrote the watermark
C19_Witness ==
  /\ Completed /\ pc # "main" /\ ~ post_url
  /\ post_payloads # <<>> /\ post_log = <<>>
  /\ save_result = "ok" /\ wmFile = JsonFile(IsoFormat(max_last_write_time))
  /\ temp_download_dir = "removed"

(***************************************************************************)
(* C20 -- Delivery success criterion: a POST is logged as a success if and *)
(* only if the final status of the response is in the 2xx range.           *)
(***************************************************************************)
C20_SuccessCriterion ==
  \A i \in 1..Len(post_log) :
    post_log[i].success <=>
      (200 <= post_log[i].status /\ post_log[i].status < 300)

(***************************************************************************)
(* Notions on the kinds of entries.                                        *)
(***************************************************************************)
\* the entry is a directory, or a file whose identifier is None or empty
IsOther(item) ==
  \/ item.type = "directory"
  \/ extract_common_name(item.name) \in {NoneStr, Str(<<>>)}

\* the run has no filter timestamp, or the entry was written after it
PassesFilter(item) ==
  \/ filter_since_time = None
  \/ item.last_write_time # None /\ item.last_write_time > filter_since_time

\* the items a download was attempted for: the staged members of the
\* admitted groups and of the group being staged
Downloaded ==
  { Member(im) : im \in StagedMembers } \cup { files[i] : i \in 1..Len(files) }

(***************************************************************************)
(* C21 -- Only grouped files are fetched: every included directory and     *)
(* every included file whose identifier is None or empty is in the other   *)
(* bucket, no such entry is a member of a group, and no download, payload  *)
(* or POST is made for one.                                                *)
(***************************************************************************)
C21_OnlyGrouped ==
  /\ \A k \in DOMAIN raw_grouped_files :
       /\ k # <<>>
       /\ \A m \in 1..Len(raw_grouped_files[k]) :
            ~ IsOther(raw_grouped_files[k][m])
  /\ \A i \in 1..Len(initial_file_list) :
       LET item == initial_file_list[i]
       IN IsOther(item) =>
            /\ ((pc \in {"groups", "stage", "post", "save"} \/ Completed)
                  /\ PassesFilter(item)) =>
                 \E h \in 1..Len(processed_other_items) :
                   processed_other_items[h] = item
            /\ \A d \in Downloaded : d.name # item.name
            /\ ~ HasPayload(item.name) /\ ~ WasPosted(item.name)

\* a completed run with an endpoint that listed a directory named as a
\* .pdf of the record "A" and the .json and the .PDF of that record, and
\* POSTed the two files only
C21_Witness ==
  /\ Completed /\ post_url
  /\ \E i \in 1..Len(processed_other_items) :
       /\ processed_other_items[i].type = "directory"
       /\ extract_common_name(processed_other_items[i].name) = Str(<<"A">>)
  /\ Len(processed_groups_list) = 1
  /\ Len(processed_groups_list[1].files) = 2
  /\ Len(post_log) = 2

(***************************************************************************)
(* C25 -- DirectoryEntry invariant: every listed entry of type directory   *)
(* has no size_bytes, whatever getAttributes reports for it; and once the  *)
(* folder is listed every entry of the folder is in the listing, an entry  *)
(* whose attributes could not be read with size_bytes, last_write_time and *)
(* creation_time all None.                                                 *)
(***************************************************************************)
C25_DirectoryEntry ==
  /\ \A i \in 1..Len(initial_file_list) :
       initial_file_list[i].type = "directory" =>
         initial_file_list[i].size_bytes = None
  /\ (pc \in {"filter", "groups", "stage", "post", "save"} \/ FilterDone) =>
       /\ Len(initial_file_list) = Len(store)
       /\ \A i \in 1..Len(store) :
            /\ initial_file_list[i].name = store[i].name
            /\ store[i].last_write_time = None =>
                 /\ initial_file_list[i].size_bytes = None
                 /\ initial_file_list[i].last_write_time = None
                 /\ initial_file_list[i].creation_time = None

(***************************************************************************)
(* Notions on the phases of a run.                                         *)
(***************************************************************************)
\* the watermark step is over: save_last_run_timestamp was called if there
\* was a timestamp to write
WatermarkStepDone ==
  pc \in {"finally", "exited"} /\ (max_last_write_time # None => save_result # "none")

\* the staging state: the staged groups and the members of the group being
\* staged; it is empty as long as no download was attempted
Staging == << processed_groups_list, files >>

\* what holds in every state of a run
PhaseInv ==
  /\ pc \in {"list", "filter", "groups", "stage", "post", "save"} =>
       session = "open"
  /\ Staging # << <<>>, <<>> >> =>
       pc \notin {"main", "since", "connect", "list", "filter"}
  /\ post_log # <<>> =>
       /\ g > Len(group_keys) /\ files = <<>>
       /\ Len(post_log) <= Len(post_payloads)
  /\ save_result # "none" =>
       /\ g > Len(group_keys) /\ files = <<>>
       /\ post_url => Len(post_log) = Len(post_payloads)
  /\ session \in {"closed", "close_failed"} =>
       /\ pc = "exited"
       /\ \/ FatalError
          \/ /\ g > Len(group_keys) /\ files = <<>>
             /\ post_url => Len(post_log) = Len(post_payloads)
             /\ WatermarkStepDone

\* what holds of every step of a run
PhaseStep ==
  /\ (session' = "open" /\ session # "open") =>
       session = "none" /\ initial_file_list = <<>>
  /\ session \in {"closed", "close_failed"} => session' = session
  /\ initial_file_list' # initial_file_list => Staging = << <<>>, <<>> >>
  /\ raw_grouped_files' # raw_grouped_files => Staging = << <<>>, <<>> >>
  /\ Staging' # Staging => post_log = <<>> /\ post_payloads = <<>>
  /\ post_payloads' # post_payloads => g > Len(group_keys) /\ post_log = <<>>
  /\ post_log' # post_log => save_result = "none" /\ session = "open"
  /\ save_result' # save_result => session = "open"

(***************************************************************************)
(* C22 -- Phase ordering within one run: the session is open before the    *)
(* listing and during the whole pipeline; no download is attempted before  *)
(* the listing, the filter and the grouping are over; no POST is issued    *)
(* before the staging of every admitted group is over; the watermark is    *)
(* written only after every POST; the session is closed only when the      *)
(* watermark step is over or a fatal error aborted the pipeline; and a     *)
(* session is opened once, and never after one was closed.                 *)
(***************************************************************************)
C22_PhaseOrder == [] PhaseInv /\ [][PhaseStep]_vars

\* a completed run that staged a group, POSTed two payloads, wrote the
\* watermark and closed its session
C22_Witness ==
  /\ Completed /\ post_url
  /\ Len(post_log) >= 2 /\ Len(post_log) = Len(post_payloads)
  /\ save_result = "ok"
  /\ session = "closed"

(***************************************************************************)
(* C28 -- Staged-record consistency: a staged member with download_success *)
(* has a local_path, a blob and a mime_type; a staged member without       *)
(* download_success has neither blob nor mime_type; and no payload has a   *)
(* None blob or a None type.                                               *)
(***************************************************************************)
C28_StagedRecord ==
  /\ \A d \in Downloaded :
       /\ d.download_success =>
            ~ d.local_path.isNone /\ d.blob # None /\ d.mime_type # NoMime
       /\ ~ d.download_success => d.blob = None /\ d.mime_type = NoMime
  /\ \A i \in 1..Len(post_payloads) :
       post_payloads[i].blob # None /\ post_payloads[i].type # NoMime

\* a completed run that staged a group of three members: one download
\* failed, one encoding failed after its download, one member got a payload
C28_Witness ==
  /\ Completed
  /\ \E i \in 1..Len(processed_groups_list) :
       LET fs == processed_groups_list[i].files
       IN /\ Len(fs) = 3
          /\ \E a, b, c \in 1..3 :
               /\ ~ fs[a].download_success /\ fs[a].local_path.isNone
               /\ ~ fs[b].download_success /\ ~ fs[b].local_path.isNone
               /\ fs[c].download_success /\ HasPayload(fs[c].name)

(***************************************************************************)
(* C23 -- No duplicate processing across sequential runs: an entry that a  *)
(* completed scheduled run included, the run not having failed to write    *)
(* the watermark, is neither included nor POSTed by a later scheduled run  *)
(* against the unchanged store.                                            *)
(***************************************************************************)
C23_NoDuplicate ==
  (pc # "main" /\ ~ override) =>
    \A name \in processed : ~ NameIncluded(name) /\ ~ WasPosted(name)

LoadedFilter(file) ==
  IF HasWatermark(file) THEN WatermarkOf(file) ELSE None

\* what holds in every state: each process filters with the watermark it
\* loaded, whatever the file holds since, and POSTs by that filter alone
ConcInv ==
  /\ (pc \notin {"main", "since"} /\ raised \notin {"ValueError", "OSError", "AttributeError"}) =>
       filter_since_time = LoadedFilter(wmBefore)
  /\ \A i \in 1..Len(post_log) :
       \E h \in 1..Len(initial_file_list) :
         /\ initial_file_list[h].name = post_log[i].filename
         /\ PassesFilter(initial_file_list[h])
  /\ \A name \in peer.posted :
       \E h \in 1..Len(peer.initial_file_list) :
         /\ peer.initial_file_list[h].name = name
         /\ \/ peer.filter_since_time = None
            \/ peer.initial_file_list[h].last_write_time > peer.filter_since_time

\* what holds of every step: a write of the watermark replaces the content
\* of the file by the maximum of the writing process, whatever it was
ConcStep ==
  /\ (save_result = "none" /\ save_result' = "ok") =>
       wmFile' = JsonFile(IsoFormat(max_last_write_time))
  /\ (~ peer.saved /\ peer'.saved) =>
       wmFile' = JsonFile(IsoFormat(peer.max_last_write_time))

(***************************************************************************)
(* C24 -- Concurrent runs are unsafe: nothing ties the filter and the      *)
(* write of one run to what the other run did in the meantime.  Each run   *)
(* filters with the watermark it loaded and POSTs every file of an         *)
(* admitted group that passes that filter, and each write of the watermark *)
(* replaces the content of the file by the writer's own maximum, without   *)
(* lock or comparison.                                                     *)
(***************************************************************************)
C24_Concurrent == [] ConcInv /\ [][ConcStep]_vars

\* two runs that both loaded the empty watermark: a file was POSTed by both,
\* and the watermark in the file, written last by the second process, is
\* lower than the one the first process had written
C24_Witness ==
  /\ Completed /\ save_result = "ok"
  /\ peer.pc = "done" /\ peer.saved
  /\ ~ HasWatermark(wmBefore) /\ peer.filter_since_time = None
  /\ \E i \in 1..Len(post_log) :
       /\ post_log[i].success
       /\ post_log[i].filename \in peer.posted
  /\ wmFile = JsonFile(IsoFormat(peer.max_last_write_time))
  /\ peer.max_last_write_time < max_last_write_time

====
